---- MODULE Spec2Model ----
(***************************************************************************)
(* A model of src/app.js: the book store kept in `books`, its derived      *)
(* `searchIndex`, the persisted slot in localStorage, the add/edit modal,  *)
(* the asynchronous file import and the bootstrap load of books.csv.       *)
(*                                                                         *)
(* JavaScript strings are sequences of one-character strings, so that the  *)
(* character-level functions (trim, toLowerCase, the regular-expression    *)
(* replaces, parseFloat, toFixed, the CSV parser and the CSV writer) are   *)
(* computed as the code computes them.                                     *)
(***************************************************************************)
EXTENDS Integers, Sequences, FiniteSets, TLC

(***************************************************************************)
(* Program constants                                                       *)
(***************************************************************************)
RATE == 4000

(***************************************************************************)
(* Characters and strings                                                  *)
(***************************************************************************)
Digits == <<"0", "1", "2", "3", "4", "5", "6", "7", "8", "9">>
UpperCase == <<"A", "B", "C", "D", "E", "F", "G", "H", "I", "J", "K", "L", "M",
               "N", "O", "P", "Q", "R", "S", "T", "U", "V", "W", "X", "Y", "Z">>
LowerCase == <<"a", "b", "c", "d", "e", "f", "g", "h", "i", "j", "k", "l", "m",
               "n", "o", "p", "q", "r", "s", "t", "u", "v", "w", "x", "y", "z">>
WhiteSpace == {" ", "\t", "\r", "\n"}
EmptyStr == << >>
QUOTE == "\""
COMMA == ","
LF == "\n"
CR == "\r"

Range(s) == {s[i] : i \in 1..Len(s)}
IsDigit(c) == c \in Range(Digits)
DigitVal(c) == (CHOOSE i \in 1..10 : Digits[i] = c) - 1

Pow10(k) == IF k = 0 THEN 1
            ELSE IF k = 1 THEN 10
            ELSE IF k = 2 THEN 100
            ELSE IF k = 3 THEN 1000
            ELSE IF k = 4 THEN 10000
            ELSE IF k = 5 THEN 100000
            ELSE IF k = 6 THEN 1000000
            ELSE IF k = 7 THEN 10000000
            ELSE 100000000

\* String.prototype.toLowerCase, on the ASCII letters
LowerChar(c) == IF c \in Range(UpperCase)
                THEN LowerCase[CHOOSE i \in 1..26 : UpperCase[i] = c]
                ELSE c
toLowerCase(s) == [i \in 1..Len(s) |-> LowerChar(s[i])]

\* String.prototype.trim
RECURSIVE TrimLeft(_)
TrimLeft(s) == IF s # << >> /\ Head(s) \in WhiteSpace THEN TrimLeft(Tail(s)) ELSE s
RECURSIVE TrimRight(_)
TrimRight(s) == IF s # << >> /\ s[Len(s)] \in WhiteSpace
                THEN TrimRight(SubSeq(s, 1, Len(s) - 1)) ELSE s
trim(s) == TrimRight(TrimLeft(s))

\* s.replace(/[set]/g, '')
RemoveChars(s, set) == SelectSeq(s, LAMBDA c : c \notin set)
\* s.replace(/[^set]/g, '')
KeepChars(s, set) == SelectSeq(s, LAMBDA c : c \in set)

\* s.replace(/KHR/ig, ''): one left-to-right pass over non-overlapping matches
RECURSIVE RemoveKHR(_)
RemoveKHR(s) ==
  IF s = << >> THEN << >>
  ELSE IF Len(s) >= 3 /\ toLowerCase(SubSeq(s, 1, 3)) = <<"k", "h", "r">>
       THEN RemoveKHR(SubSeq(s, 4, Len(s)))
       ELSE <<Head(s)>> \o RemoveKHR(Tail(s))

\* s.endsWith(t), s.includes(t)
endsWith(s, t) == Len(s) >= Len(t) /\ SubSeq(s, Len(s) - Len(t) + 1, Len(s)) = t
includes(s, t) == \E i \in 1..(Len(s) - Len(t) + 1) : SubSeq(s, i, i + Len(t) - 1) = t

(***************************************************************************)
(* JavaScript values: undefined, strings, and numbers.  A finite number is *)
(* the decimal fraction (-1)^neg * m / 10^e; NaN is its own tag.           *)
(***************************************************************************)
Undefined == [t |-> "undefined", s |-> << >>, neg |-> FALSE, m |-> 0, e |-> 0]
NaN == [t |-> "NaN", s |-> << >>, neg |-> FALSE, m |-> 0, e |-> 0]
StrV(str) == [t |-> "string", s |-> str, neg |-> FALSE, m |-> 0, e |-> 0]
NumV(ng, mm, ee) == [t |-> "number", s |-> << >>, neg |-> ng, m |-> mm, e |-> ee]

\* ToBoolean: undefined, '', 0 and NaN are falsy
Truthy(v) == \/ v.t = "string" /\ v.s # << >>
             \/ v.t = "number" /\ v.m # 0
\* a || b
OrElse(a, b) == IF Truthy(a) THEN a ELSE b

RECURSIVE DigitsToInt(_)
DigitsToInt(ds) == IF ds = << >> THEN 0
                   ELSE 10 * DigitsToInt(SubSeq(ds, 1, Len(ds) - 1)) + DigitVal(ds[Len(ds)])
RECURSIVE IntToStr(_)
IntToStr(n) == IF n < 10 THEN <<Digits[n + 1]>>
               ELSE IntToStr(n \div 10) \o <<Digits[(n % 10) + 1]>>
RECURSIVE DigitPrefix(_)
DigitPrefix(s) == IF s # << >> /\ IsDigit(Head(s)) THEN <<Head(s)>> \o DigitPrefix(Tail(s))
                  ELSE << >>

\* The longest prefix of s that is a decimal literal [+-]?(d+(.d*)?|.d+), as
\* <<sign, integer digits, fraction digits, characters consumed>>.  The
\* strings of this model hold no exponent part, "Infinity" or hex literal.
DecimalPrefix(s) ==
  LET signed == s # << >> /\ Head(s) \in {"-", "+"}
      body == IF signed THEN Tail(s) ELSE s
      ip == DigitPrefix(body)
      rest == SubSeq(body, Len(ip) + 1, Len(body))
      dot == rest # << >> /\ Head(rest) = "."
      fp == IF dot THEN DigitPrefix(Tail(rest)) ELSE << >>
      usedDot == dot /\ (ip # << >> \/ fp # << >>)
  IN [neg |-> signed /\ Head(s) = "-",
      ip |-> ip, fp |-> fp,
      used |-> (IF signed THEN 1 ELSE 0) + Len(ip) + (IF usedDot THEN 1 + Len(fp) ELSE 0)]

\* parseFloat(s): the value of the longest decimal-literal prefix, else NaN
parseFloat(s) ==
  LET p == DecimalPrefix(TrimLeft(s))
  IN IF p.ip = << >> /\ p.fp = << >> THEN NaN
     ELSE NumV(p.neg, DigitsToInt(p.ip \o p.fp), Len(p.fp))

\* Number(s) of a string: '' is 0, a whole decimal literal is its value, else NaN
ToNumber(s) ==
  LET t == trim(s)
      p == DecimalPrefix(t)
  IN IF t = << >> THEN NumV(FALSE, 0, 0)
     ELSE IF (p.ip = << >> /\ p.fp = << >>) \/ p.used # Len(t) THEN NaN
     ELSE NumV(p.neg, DigitsToInt(p.ip \o p.fp), Len(p.fp))

\* x / RATE, exact because RATE divides 10^5
DivRATE(x) == IF x.t = "number" THEN NumV(x.neg, x.m * (100000 \div RATE), x.e + 5) ELSE NaN

\* Number.prototype.toFixed(2).  m / 10^e is rounded to the nearest hundredth;
\* an exact tie takes the larger value (the inputs of this model produce none,
\* so the binary representation of the tie does not matter).
toFixed2(x) ==
  LET h == IF x.e <= 2 THEN x.m * Pow10(2 - x.e)
           ELSE LET d == Pow10(x.e - 2)
                IN (x.m \div d) + (IF 2 * (x.m % d) >= d THEN 1 ELSE 0)
      c == h % 100
  IN (IF x.neg /\ x.m # 0 THEN <<"-">> ELSE << >>)
     \o IntToStr(h \div 100) \o <<".">> \o <<Digits[(c \div 10) + 1], Digits[(c % 10) + 1]>>

RECURSIVE StripTrailingZeros(_)
StripTrailingZeros(ds) == IF Len(ds) > 1 /\ ds[Len(ds)] = "0"
                          THEN StripTrailingZeros(SubSeq(ds, 1, Len(ds) - 1)) ELSE ds

\* parseFloat(String(x).replace(/[^0-9.-]/g, '')) of a number x.  String(x) is
\* plain decimal notation and reads back as x, except below 1e-6 where it is
\* "d.ddde-k": the replace drops the 'e' and parseFloat stops at the '-'.
NumberThroughString(x) ==
  IF x.t # "number" THEN NaN
  ELSE IF x.m # 0 /\ x.e > 6 /\ x.m < Pow10(x.e - 6)
       THEN LET ds == StripTrailingZeros(IntToStr(x.m))
            IN NumV(x.neg, DigitsToInt(ds), Len(ds) - 1)
       ELSE x

(***************************************************************************)
(* helpers of app.js (lines 147-155)                                       *)
(***************************************************************************)
\* cleanCurrency(v); v is undefined or a string
cleanCurrency(v) ==
  IF v.t = "undefined" THEN EmptyStr
  ELSE trim(RemoveChars(RemoveKHR(RemoveChars(v.s, {QUOTE})), {COMMA}))

NumericChars == Range(Digits) \cup {".", "-"}

\* formatUSD(v); v is undefined, a string or a number
formatUSD(v) ==
  LET n == IF v.t = "string" THEN parseFloat(KeepChars(v.s, NumericChars))
           ELSE NumberThroughString(v)
  IN IF v.t = "undefined" THEN EmptyStr
     ELSE IF n.t = "NaN" THEN EmptyStr
     ELSE toFixed2(n)

(***************************************************************************)
(* CSV parser (lines 74-94)                                                *)
(***************************************************************************)
\* text.split(/\r?\n/): cur is the line being accumulated
RECURSIVE SplitLinesFrom(_, _)
SplitLinesFrom(text, cur) ==
  IF text = << >> THEN <<cur>>
  ELSE IF Head(text) = LF
       THEN <<(IF cur # << >> /\ cur[Len(cur)] = CR THEN SubSeq(cur, 1, Len(cur) - 1) ELSE cur)>>
            \o SplitLinesFrom(Tail(text), << >>)
       ELSE SplitLinesFrom(Tail(text), Append(cur, Head(text)))
SplitLines(text) == SplitLinesFrom(text, << >>)

\* the character loop of parseCSVText over one line, from position i
RECURSIVE ParseLineFrom(_, _, _, _, _)
ParseLineFrom(line, i, cur, inQuotes, cols) ==
  IF i > Len(line) THEN Append(cols, cur)
  ELSE IF line[i] = QUOTE
       THEN IF inQuotes /\ i + 1 <= Len(line) /\ line[i + 1] = QUOTE
            THEN ParseLineFrom(line, i + 2, Append(cur, QUOTE), inQuotes, cols)
            ELSE ParseLineFrom(line, i + 1, cur, ~inQuotes, cols)
       ELSE IF line[i] = COMMA /\ ~inQuotes
            THEN ParseLineFrom(line, i + 1, << >>, inQuotes, Append(cols, cur))
            ELSE ParseLineFrom(line, i + 1, Append(cur, line[i]), inQuotes, cols)
\* a scan that starts inside a quoted region
ParseLineQuoted(line) == ParseLineFrom(line, 1, << >>, TRUE, << >>)
ParseLine(line) == ParseLineFrom(line, 1, << >>, FALSE, << >>)

parseCSVText(text) ==
  LET lines == SelectSeq(SplitLines(text), LAMBDA l : trim(l) # << >>)
  IN [k \in 1..Len(lines) |-> ParseLine(lines[k])]

(***************************************************************************)
(* Records and the row mapping of the CSV import (lines 107-116) and of    *)
(* the bootstrap load (lines 294-303)                                      *)
(***************************************************************************)
\* an element of the books array: a record {name, khr, usd}, a null (from
\* JSON) or a hole of a sparse array
Book(n, k, u) == [kind |-> "record", name |-> n, khr |-> k, usd |-> u]
Null == [kind |-> "null", name |-> << >>, khr |-> << >>, usd |-> << >>]
Hole == [kind |-> "hole", name |-> << >>, khr |-> << >>, usd |-> << >>]

K_book_title == <<"b", "o", "o", "k", " ", "t", "i", "t", "l", "e">>
K_title == <<"t", "i", "t", "l", "e">>
K_name == <<"n", "a", "m", "e">>
K_price_unit == <<"p", "r", "i", "c", "e", "/", "u", "n", "i", "t">>
K_khr == <<"k", "h", "r">>
K_price_khr == <<"p", "r", "i", "c", "e", " ", "(", "k", "h", "r", ")">>
K_usd == <<"u", "s", "d">>

\* rows.shift().map(h => h.trim().toLowerCase())
NormalizeHeader(row) == [i \in 1..Len(row) |-> toLowerCase(trim(row[i]))]

\* obj[key] after header.forEach((h, idx) => obj[h] = r[idx] ? r[idx].trim() : '')
\* the last column named key wins; undefined when no column has that name
Cell(header, r, key) ==
  LET cols == {i \in 1..Len(header) : header[i] = key}
  IN IF cols = {} THEN Undefined
     ELSE LET idx == CHOOSE i \in cols : \A j \in cols : j <= i
          IN IF idx <= Len(r) /\ r[idx] # << >> THEN StrV(trim(r[idx])) ELSE StrV(EmptyStr)

\* the object returned by the rows.map callback of the import handler
ImportRow(header, r) ==
  Book(OrElse(Cell(header, r, K_book_title),
         OrElse(Cell(header, r, K_title), OrElse(Cell(header, r, K_name), StrV(EmptyStr)))).s,
       cleanCurrency(OrElse(Cell(header, r, K_price_unit),
         OrElse(Cell(header, r, K_khr), OrElse(Cell(header, r, K_price_khr), StrV(EmptyStr))))),
       formatUSD(OrElse(Cell(header, r, K_usd),
         DivRATE(ToNumber(cleanCurrency(Cell(header, r, K_price_unit)))))))

\* the object returned by the rows.map callback of loadDefaultCSV
BootstrapRow(header, r) ==
  Book(OrElse(Cell(header, r, K_book_title),
         OrElse(Cell(header, r, K_title), OrElse(Cell(header, r, K_name), StrV(EmptyStr)))).s,
       cleanCurrency(OrElse(Cell(header, r, K_price_unit),
         OrElse(Cell(header, r, K_khr), StrV(EmptyStr)))),
       formatUSD(OrElse(Cell(header, r, K_usd),
         DivRATE(ToNumber(cleanCurrency(Cell(header, r, K_price_unit)))))))

\* a mapping that keeps only the rows with a name
ImportRecordsNamed(rows) ==
  LET header == NormalizeHeader(Head(rows))
      data == Tail(rows)
  IN SelectSeq([k \in 1..Len(data) |-> ImportRow(header, data[k])],
               LAMBDA b : b.name # << >>)
\* header = rows.shift()...; mapped = rows.map(...), for rows.length >= 1
ImportRecords(rows) ==
  LET header == NormalizeHeader(Head(rows))
      data == Tail(rows)
  IN [k \in 1..Len(data) |-> ImportRow(header, data[k])]
BootstrapRecords(rows) ==
  LET header == NormalizeHeader(Head(rows))
      data == Tail(rows)
  IN [k \in 1..Len(data) |-> BootstrapRow(header, data[k])]

(***************************************************************************)
(* CSV export (lines 236-238)                                              *)
(***************************************************************************)
H_Book_Title == <<"B", "o", "o", "k", " ", "T", "i", "t", "l", "e">>
H_Price_Unit == <<"P", "r", "i", "c", "e", "/", "U", "n", "i", "t">>
H_USD == <<"U", "S", "D">>

\* `"${String(c).replace(/"/g,'""')}"`
RECURSIVE DoubleQuotes(_)
DoubleQuotes(c) == IF c = << >> THEN << >>
                   ELSE (IF Head(c) = QUOTE THEN <<QUOTE, QUOTE>> ELSE <<Head(c)>>)
                        \o DoubleQuotes(Tail(c))
QuoteField(c) == <<QUOTE>> \o DoubleQuotes(c) \o <<QUOTE>>

\* parts.join(sep)
RECURSIVE Join(_, _)
Join(parts, sep) == IF parts = << >> THEN << >>
                    ELSE IF Len(parts) = 1 THEN parts[1]
                    ELSE parts[1] \o sep \o Join(Tail(parts), sep)

ExportLine(r) == Join([i \in 1..Len(r) |-> QuoteField(r[i])], <<COMMA>>)
\* the csv text of the export handler, for an array of records
ExportCSV(items) ==
  LET header == <<H_Book_Title, H_Price_Unit, H_USD>>
      rows == [i \in 1..Len(items) |-> <<items[i].name, items[i].khr, items[i].usd>>]
      all == <<header>> \o rows
  IN Join([i \in 1..Len(all) |-> ExportLine(all[i])], <<LF>>)

(***************************************************************************)
(* The values of `books`, the persisted slot and the search index          *)
(***************************************************************************)
\* `books` is an array, or what JSON.parse returned when the slot held valid
\* JSON that is not an array: a falsy value ("null": null, 0, '') or a truthy
\* one without a length ("object": {}, 5).
ArrayV(items) == [type |-> "array", items |-> items]
NullV == [type |-> "null", items |-> << >>]
ObjectV == [type |-> "object", items |-> << >>]

\* localStorage[STORAGE_KEY]: absent, a string that is not JSON, or JSON text
SlotAbsent == [kind |-> "absent", value |-> NullV]
SlotGarbage == [kind |-> "garbage", value |-> NullV]
SlotJSON(v) == [kind |-> "json", value |-> v]

\* JSON.stringify(books): the holes of a sparse array are written as null
Stringify(b) ==
  SlotJSON([type |-> b.type,
            items |-> [i \in 1..Len(b.items) |->
                         IF b.items[i].kind = "hole" THEN Null ELSE b.items[i]]])

\* an entry of searchIndex: a string, or a hole where books has a hole
IndexEntry(str) == [kind |-> "string", s |-> str]
IndexHole == [kind |-> "hole", s |-> << >>]

(***************************************************************************)
(* Bounds and inputs                                                       *)
(***************************************************************************)
\* manual additions are offered while the store has fewer records than this
MaxBooks == 2
\* file reads that may be suspended at the same time
MaxPending == 1
\* localStorage.setItem throws (QuotaExceededError) when the serialized store
\* holds more records than this
Quota == 1

\* the contents of #bookName, #priceKHR and #priceUSD when Save is clicked
Fields(n, k, u) == [bookName |-> n, priceKHR |-> k, priceUSD |-> u]
ModalInputs ==
  { Fields(<<" ">>, << >>, << >>),
    Fields(<<" ", "A">>, <<"8", ",", "0", "0", "0", " ", "K", "H", "R">>, <<"2", ".", "0", "0">>),
    Fields(<<"B">>, << >>, << >>) }

\* a row object of XLSX.utils.sheet_to_json, by column key
SheetRow(bt, t, n, pu, k, u) ==
  [BookTitle |-> bt, Title |-> t, name |-> n, PriceUnit |-> pu, KHR |-> k, USD |-> u]

\* a file picked in #localCsvInput: its name, whether the read succeeds, its
\* text, and what the spreadsheet library makes of it
File(nm, rd, txt, wb, js) ==
  [name |-> nm, readable |-> rd, text |-> txt, workbook |-> wb, json |-> js]

HeaderLine == H_Book_Title \o <<COMMA>> \o H_Price_Unit \o <<COMMA>> \o H_USD
RowC == <<"C", COMMA, "4", "0", "0", "0", COMMA>>
F_one == File(<<"a", ".", "C", "S", "V">>, TRUE, HeaderLine \o <<CR, LF>> \o RowC \o <<LF>>,
              "none", << >>)
F_blank == File(<<"e", ".", "c", "s", "v">>, TRUE, <<" ", LF>>, "none", << >>)
F_notsheet == File(<<"n", ".", "t", "x", "t">>, TRUE, << >>, "invalid", << >>)
SheetRowC == SheetRow(StrV(<<"C">>), Undefined, Undefined,
                       StrV(<<"4", ",", "0", "0", "0">>), Undefined, Undefined)
F_sheet == File(<<"s", ".", "x", "l", "s", "x">>, TRUE, << >>, "valid", <<SheetRowC, SheetRowC>>)
Files == {F_one, F_blank, F_notsheet, F_sheet}

\* the body of books.csv when the server has one
BootstrapTexts == { HeaderLine, HeaderLine \o <<LF>> \o RowC }

\* what localStorage holds when the page is first opened
InitialSlots ==
  { SlotAbsent, SlotGarbage, SlotJSON(NullV), SlotJSON(ObjectV), SlotJSON(ArrayV(<<Null>>)) }

(***************************************************************************)
(* State                                                                   *)
(***************************************************************************)
VARIABLES
  books,        \* the in-memory store (line 19)
  searchIndex,  \* the derived index (line 20)
  storage,      \* localStorage[STORAGE_KEY]
  editIndex,    \* #editIndex: -1 for '', else the index openEdit stored
  rows,         \* the list shown in #tableBody by the last completed render
  initPc,       \* init(): "loading" while loadDefaultCSV is suspended, then
                \* "done", or "threw" when init() ended by an exception
  pending,      \* the files whose read an import handler is awaiting
  last          \* the last handler that called a store function, raised a
                \* notice or threw: its name, its alert, the calls it completed
                \* in order, whether it ended by an uncaught exception

\* One file followed through export, parser and row mapping, stage by stage
\* (the page itself keeps none of this: the stages are locals of its handlers)
VARIABLES
  fileStore,    \* the records a CSV export is made from
  fileText,     \* the text of the file
  fileRows,     \* parseCSVText(fileText)
  fileBooks,    \* the records the import handler maps the rows to
  bootBooks,    \* the records loadDefaultCSV maps the rows to
  fileCells,    \* the rows of cells a text file was written from, header first
  filePc        \* "none", or the stage reached: "store", "text", "rows"

\* The inputs of the modal, followed on their own while the user types
\* (saveFromModal above takes their contents as its input)
VARIABLES
  bookName,     \* #bookName.value
  priceKHR,     \* #priceKHR.value
  priceUSD      \* #priceUSD.value

fileVars == <<fileStore, fileText, fileRows, fileBooks, bootBooks, fileCells, filePc>>
formVars == <<bookName, priceKHR, priceUSD>>
otherVars == <<fileVars, formVars>>
vars == <<books, searchIndex, storage, editIndex, rows, initPc, pending, last,
          fileStore, fileText, fileRows, fileBooks, bootBooks, fileCells, filePc,
          bookName, priceKHR, priceUSD>>

\* the result of a mapping stage: not run yet, or the mapped records; the
\* notice is 'CSV is empty' (import) or "skipped" (bootstrap: rows.length <= 1)
NotRun == [done |-> FALSE, notice |-> "", items |-> << >>]
Mapped(items) == [done |-> TRUE, notice |-> "", items |-> items]
Refused(n) == [done |-> TRUE, notice |-> n, items |-> << >>]
NoFile ==
  /\ fileStore = << >>
  /\ fileText = << >>
  /\ fileRows = << >>
  /\ fileBooks = NotRun
  /\ bootBooks = NotRun
  /\ fileCells = << >>
  /\ filePc = "none"

\* the three inputs as the page loads them: empty
NoForm ==
  /\ bookName = << >>
  /\ priceKHR = << >>
  /\ priceUSD = << >>

Event(h, n, c, t) == [handler |-> h, notice |-> n, calls |-> c, threw |-> t]

(***************************************************************************)
(* storage, search index and render                                        *)
(***************************************************************************)
\* loadFromStorage(): the value assigned to books
loadFromStorage(slot) ==
  IF slot.kind = "absent" THEN ArrayV(<< >>)
  ELSE IF slot.kind = "garbage" THEN ArrayV(<< >>)
  ELSE slot.value

\* localStorage.setItem in saveToStorage throws
SetItemThrows(b) == Len(b.items) > Quota

HasKind(items, kinds) == \E i \in 1..Len(items) : items[i].kind \in kinds

\* books.map in buildSearchIndex throws: books is not an array, or the
\* callback reads b.name of a null element (holes are skipped by map)
BuildThrows(b) == b.type # "array" \/ HasKind(b.items, {"null"})

Composite(b) == toLowerCase(b.name \o <<" ">> \o b.khr \o <<" ">> \o b.usd)
\* the array buildSearchIndex assigns to searchIndex
buildSearchIndex(items) ==
  [i \in 1..Len(items) |->
     IF items[i].kind = "hole" THEN IndexHole ELSE IndexEntry(Composite(items[i]))]

\* render(books) throws: the loop reads b.name of an undefined or null element
RenderThrows(b) == b.type = "array" /\ HasKind(b.items, {"hole", "null"})

\* saveToStorage(); buildSearchIndex(); render() with books = b: the new
\* values of storage, searchIndex and rows, the calls completed, and whether
\* one of them threw
AfterMutation(b) ==
  IF SetItemThrows(b)
  THEN [storage |-> storage, searchIndex |-> searchIndex, rows |-> rows,
        calls |-> <<"assign">>, threw |-> TRUE]
  ELSE IF BuildThrows(b)
  THEN [storage |-> Stringify(b), searchIndex |-> searchIndex, rows |-> rows,
        calls |-> <<"assign", "saveToStorage">>, threw |-> TRUE]
  ELSE IF RenderThrows(b)
  THEN [storage |-> Stringify(b), searchIndex |-> buildSearchIndex(b.items), rows |-> rows,
        calls |-> <<"assign", "saveToStorage", "buildSearchIndex">>, threw |-> TRUE]
  ELSE [storage |-> Stringify(b), searchIndex |-> buildSearchIndex(b.items), rows |-> b.items,
        calls |-> <<"assign", "saveToStorage", "buildSearchIndex", "render">>, threw |-> FALSE]

(***************************************************************************)
(* Start of the page: initTheme(); loadFromStorage(); then init() is       *)
(* suspended in loadDefaultCSV at `await fetch('books.csv')`               *)
(***************************************************************************)
Started(slot) ==
  /\ storage = slot
  /\ books = loadFromStorage(slot)
  /\ searchIndex = << >>
  /\ editIndex = -1
  /\ rows = << >>
  /\ initPc = "loading"
  /\ pending = {}
  /\ last = Event("init", "", << >>, FALSE)

Init == NoFile /\ NoForm /\ \E slot \in InitialSlots : Started(slot)

\* the page is reloaded: the script runs again over the current slot
Reload ==
  /\ storage' = storage
  /\ books' = loadFromStorage(storage)
  /\ searchIndex' = << >>
  /\ editIndex' = -1
  /\ rows' = << >>
  /\ initPc' = "loading"
  /\ pending' = {}
  /\ last' = Event("init", "", << >>, FALSE)
  /\ UNCHANGED otherVars

\* buildSearchIndex(); render() at the end of init(), with books = b
AfterBootstrap(b) ==
  IF BuildThrows(b)
  THEN [searchIndex |-> searchIndex, rows |-> rows, calls |-> << >>, threw |-> TRUE]
  ELSE IF RenderThrows(b)
  THEN [searchIndex |-> buildSearchIndex(b.items), rows |-> rows,
        calls |-> <<"buildSearchIndex">>, threw |-> TRUE]
  ELSE [searchIndex |-> buildSearchIndex(b.items), rows |-> b.items,
        calls |-> <<"buildSearchIndex", "render">>, threw |-> FALSE]

\* loadDefaultCSV returned without touching books; init() goes on
InitReturns ==
  LET r == AfterBootstrap(books)
  IN /\ searchIndex' = r.searchIndex
     /\ rows' = r.rows
     /\ initPc' = IF r.threw THEN "threw" ELSE "done"
     /\ last' = Event("init", "", r.calls, r.threw)
     /\ UNCHANGED <<books, storage, editIndex, pending>>
     /\ UNCHANGED otherVars

\* `await fetch('books.csv')` is rejected or its response is not ok
loadDefaultCSVFails ==
  /\ initPc = "loading"
  /\ InitReturns

BootstrapInstallsAlways(b) == TRUE
\* !books || books.length === 0
BootstrapMayInstall(b) == b.type = "null" \/ (b.type = "array" /\ Len(b.items) = 0)

BootstrapRowsOf == [txt \in BootstrapTexts |-> parseCSVText(txt)]
BootstrapRecordsOf ==
  [txt \in BootstrapTexts |->
     IF Len(BootstrapRowsOf[txt]) <= 1 THEN << >> ELSE BootstrapRecords(BootstrapRowsOf[txt])]

\* the fetch gave an ok response and `await res.text()` settles (lines
\* 291-308), then init() goes on.  Nothing the page can see changes between
\* the two awaits, so they are one suspension here.
loadDefaultCSV(readable, txt) ==
  /\ initPc = "loading"
  /\ LET parsed == BootstrapRowsOf[txt]
     IN IF ~readable \/ Len(parsed) <= 1 \/ ~BootstrapMayInstall(books)
        THEN InitReturns
        ELSE LET b == ArrayV(BootstrapRecordsOf[txt])
                 r == AfterBootstrap(b)
             IN /\ books' = b
                /\ storage' = IF SetItemThrows(b) THEN storage ELSE Stringify(b)
                /\ searchIndex' = r.searchIndex
                /\ rows' = r.rows
                /\ initPc' = IF r.threw THEN "threw" ELSE "done"
                /\ last' = Event("init", "",
                                 (IF SetItemThrows(b) THEN <<"assign">>
                                  ELSE <<"assign", "saveToStorage">>) \o r.calls, r.threw)
                /\ UNCHANGED <<editIndex, pending>>
                /\ UNCHANGED otherVars

(***************************************************************************)
(* add / edit / delete (lines 168-231)                                     *)
(***************************************************************************)
\* the row buttons call openEdit(i) and deleteBook(i) with the row's data-idx
RowIndexes == 0..(Len(rows) - 1)

\* #addBtn: openModal('add')
openModal ==
  /\ editIndex' = -1
  /\ UNCHANGED <<books, searchIndex, storage, rows, initPc, pending, last>>
  /\ UNCHANGED otherVars

\* openEdit(i)
openEdit(i) ==
  /\ i \in RowIndexes
  /\ editIndex' = IF books.type = "array" /\ i < Len(books.items)
                     /\ books.items[i + 1].kind = "record"
                  THEN i ELSE editIndex
  /\ last' = IF books.type = "null" THEN Event("openEdit", "", << >>, TRUE) ELSE last
  /\ UNCHANGED <<books, searchIndex, storage, rows, initPc, pending>>
  /\ UNCHANGED otherVars

\* books[idx] = entry: an index at or past the length extends the array,
\* leaving holes in between
SetAt(items, idx, entry) ==
  [i \in 1..(IF idx + 1 > Len(items) THEN idx + 1 ELSE Len(items)) |->
     IF i = idx + 1 THEN entry
     ELSE IF i <= Len(items) THEN items[i] ELSE Hole]

\* const entry = { name, khr, usd } of saveFromModal, per field contents
ModalEntry(f) ==
  Book(trim(f.bookName), cleanCurrency(StrV(f.priceKHR)), formatUSD(StrV(f.priceUSD)))
ModalEntryOf == [f \in ModalInputs |-> ModalEntry(f)]

\* saveFromModal() with the fields f
saveFromModal(f) ==
  LET entry == ModalEntryOf[f]
      name == entry.name
      b == IF editIndex = -1 THEN ArrayV(<<entry>> \o books.items)
           ELSE ArrayV(SetAt(books.items, editIndex, entry))
      r == AfterMutation(b)
  IN /\ editIndex = -1 => Len(books.items) < MaxBooks
     /\ IF name = << >>
        THEN /\ last' = Event("saveFromModal", "name required", << >>, FALSE)
             /\ UNCHANGED <<books, searchIndex, storage, rows>>
        ELSE IF books.type # "array"
        THEN \* books.unshift is not a function
             /\ last' = Event("saveFromModal", "", << >>, TRUE)
             /\ UNCHANGED <<books, searchIndex, storage, rows>>
        ELSE /\ books' = b
             /\ storage' = r.storage
             /\ searchIndex' = r.searchIndex
             /\ rows' = r.rows
             /\ last' = Event("saveFromModal", "", r.calls, r.threw)
     /\ UNCHANGED <<editIndex, initPc, pending>>
     /\ UNCHANGED otherVars

\* books.splice(i, 1)
Splice(items, i) ==
  IF i < Len(items) THEN SubSeq(items, 1, i) \o SubSeq(items, i + 2, Len(items)) ELSE items

\* deleteBook(i); confirmed is the answer to confirm('Delete this book?')
deleteBook(i, confirmed) ==
  LET b == ArrayV(Splice(books.items, i))
      r == AfterMutation(b)
  IN /\ i \in RowIndexes
     /\ IF ~confirmed
        THEN UNCHANGED <<books, searchIndex, storage, rows, last>>
        ELSE IF books.type # "array"
        THEN \* books.splice is not a function
             /\ last' = Event("deleteBook", "", << >>, TRUE)
             /\ UNCHANGED <<books, searchIndex, storage, rows>>
        ELSE /\ books' = b
             /\ storage' = r.storage
             /\ searchIndex' = r.searchIndex
             /\ rows' = r.rows
             /\ last' = Event("deleteBook", "", r.calls, r.threw)
     /\ UNCHANGED <<editIndex, initPc, pending>>
     /\ UNCHANGED otherVars

(***************************************************************************)
(* import (lines 97-144) and export (lines 234-242)                        *)
(***************************************************************************)
\* the change handler of #localCsvInput up to its await (file.text() or
\* file.arrayBuffer()): the handler is suspended, the page stays live
\* (pending is a set: two suspended reads of the same file count as one)
ImportStart(file) ==
  /\ file \notin pending
  /\ Cardinality(pending) < MaxPending
  /\ pending' = pending \cup {file}
  /\ UNCHANGED <<books, searchIndex, storage, editIndex, rows, initPc, last>>
  /\ UNCHANGED otherVars

\* the object built by json.map in the spreadsheet branch
SheetRecord(r) ==
  Book(OrElse(r.BookTitle, OrElse(r.Title, OrElse(r.name, StrV(EmptyStr)))).s,
       cleanCurrency(OrElse(r.PriceUnit, OrElse(r.KHR, StrV(EmptyStr)))),
       formatUSD(OrElse(r.USD,
                        IF Truthy(r.PriceUnit)
                        THEN DivRATE(ToNumber(KeepChars(r.PriceUnit.s, NumericChars)))
                        ELSE StrV(EmptyStr))))
SheetRecords(json) == [k \in 1..Len(json) |-> SheetRecord(json[k])]

IsCsvName(nm) == endsWith(toLowerCase(nm), <<".", "c", "s", "v">>)

\* the handler resumes; the await rejected or the library threw
ImportCannotRead(file) ==
  \/ ~file.readable
  \/ ~IsCsvName(file.name) /\ file.workbook # "valid"

\* the array assigned to books by the handler, for a file it can read
ImportedBooks(file) ==
  IF IsCsvName(file.name) THEN ArrayV(ImportRecords(parseCSVText(file.text)))
  ELSE ArrayV(SheetRecords(file.json))

\* the outcomes per file and per field contents, computed once
ImportCannotReadOf == [file \in Files |-> ImportCannotRead(file)]
ImportIsBlankOf ==
  [file \in Files |-> IsCsvName(file.name) /\ Len(parseCSVText(file.text)) = 0]
ImportedBooksOf ==
  [file \in Files |->
     IF ImportCannotReadOf[file] \/ ImportIsBlankOf[file] THEN ArrayV(<< >>)
     ELSE ImportedBooks(file)]

\* a handler without the rows.length === 0 test: a blank file installs no record
ImportFinishUntested(file) ==
  /\ file \in pending
  /\ pending' = pending \ {file}
  /\ UNCHANGED <<editIndex, initPc>>
  /\ UNCHANGED otherVars
  /\ IF ImportCannotReadOf[file]
     THEN /\ last' = Event("import", "Import failed", << >>, FALSE)
          /\ UNCHANGED <<books, searchIndex, storage, rows>>
     ELSE LET b == ImportedBooksOf[file]
              r == AfterMutation(b)
          IN /\ books' = b
             /\ storage' = r.storage
             /\ searchIndex' = r.searchIndex
             /\ rows' = r.rows
             /\ last' = Event("import", IF r.threw THEN "Import failed" ELSE "",
                              r.calls, FALSE)
\* the rest of the change handler, from the await to its end
ImportFinish(file) ==
  /\ file \in pending
  /\ pending' = pending \ {file}
  /\ UNCHANGED <<editIndex, initPc>>
  /\ UNCHANGED otherVars
  /\ IF ImportCannotReadOf[file]
     THEN /\ last' = Event("import", "Import failed", << >>, FALSE)
          /\ UNCHANGED <<books, searchIndex, storage, rows>>
     ELSE IF ImportIsBlankOf[file]
     THEN /\ last' = Event("import", "CSV is empty", << >>, FALSE)
          /\ UNCHANGED <<books, searchIndex, storage, rows>>
     ELSE LET b == ImportedBooksOf[file]
              r == AfterMutation(b)
          IN /\ books' = b
             /\ storage' = r.storage
             /\ searchIndex' = r.searchIndex
             /\ rows' = r.rows
             \* an exception of postImportFinish is caught by the handler
             /\ last' = Event("import", IF r.threw THEN "Import failed" ELSE "",
                              r.calls, FALSE)

\* what the user types in #searchInput
SearchInputs == { <<" ">>, <<"B">>, <<"z">> }

\* books[i] as the search loop reads it, i counted from 1: undefined past the
\* end of the array, in a hole, or when books has no elements
ElementAt(b, i) ==
  IF b.type = "array" /\ i <= Len(b.items) THEN b.items[i] ELSE Hole

\* the loop over searchIndex from position i with the matches found so far:
\* searchIndex[i].includes throws in a hole, books[i] throws when books is null
RECURSIVE SearchFrom(_, _, _, _, _)
SearchFrom(index, b, q, i, filtered) ==
  IF i > Len(index) THEN [threw |-> FALSE, items |-> filtered]
  ELSE IF index[i].kind = "hole" THEN [threw |-> TRUE, items |-> filtered]
  ELSE IF ~includes(index[i].s, q) THEN SearchFrom(index, b, q, i + 1, filtered)
  ELSE IF b.type = "null" THEN [threw |-> TRUE, items |-> filtered]
  ELSE SearchFrom(index, b, q, i + 1, Append(filtered, ElementAt(b, i)))

\* the list the search handler passes to render for the typed text v
Filtered(index, b, v) ==
  LET q == toLowerCase(trim(v))
  IN IF q = << >> THEN [threw |-> FALSE, items |-> b.items]
     ELSE SearchFrom(index, b, q, 1, << >>)

\* the debounced input handler of #searchInput runs with the typed text v
search(v) ==
  LET f == Filtered(searchIndex, books, v)
      threw == f.threw \/ HasKind(f.items, {"hole", "null"})
  IN /\ rows' = IF threw THEN rows ELSE f.items
     /\ last' = IF threw THEN Event("search", "", << >>, TRUE) ELSE last
     /\ UNCHANGED <<books, searchIndex, storage, editIndex, initPc, pending>>
     /\ UNCHANGED otherVars

\* the click handler of #exportBtn; the file it offers is not state
Export ==
  /\ last' = IF books.type = "null" THEN Event("export", "", << >>, TRUE)
             ELSE IF Len(books.items) = 0 THEN Event("export", "No data to export", << >>, FALSE)
             ELSE IF HasKind(books.items, {"hole", "null"}) THEN Event("export", "", << >>, TRUE)
             ELSE last
  /\ UNCHANGED <<books, searchIndex, storage, editIndex, rows, initPc, pending>>
  /\ UNCHANGED otherVars

Next ==
  \/ Reload
  \/ loadDefaultCSVFails
  \/ \E readable \in BOOLEAN, txt \in BootstrapTexts : loadDefaultCSV(readable, txt)
  \/ openModal
  \/ \E i \in 0..MaxBooks : openEdit(i)
  \/ \E f \in ModalInputs : saveFromModal(f)
  \/ \E i \in 0..MaxBooks, confirmed \in BOOLEAN : deleteBook(i, confirmed)
  \/ \E file \in Files : ImportStart(file)
  \/ \E file \in Files : ImportFinish(file)
  \/ Export

Spec == Init /\ [][Next]_vars

Idle == initPc \in {"done", "threw"} /\ pending = {}

\* The page with its search box: the modal, the Delete buttons and the
\* search handler, books.csv being absent from the server
NextSearch ==
  \/ loadDefaultCSVFails
  \/ openModal
  \/ \E i \in 0..MaxBooks : openEdit(i)
  \/ \E f \in ModalInputs : saveFromModal(f)
  \/ \E i \in 0..MaxBooks, confirmed \in BOOLEAN : deleteBook(i, confirmed)
  \/ \E v \in SearchInputs : search(v)

\* the slot may also hold three records saved by an earlier visit
StoredBooks ==
  <<Book(<<"A">>, <<"8", "0", "0", "0">>, <<"2", ".", "0", "0">>),
    Book(<<"B">>, << >>, << >>),
    Book(<<"C">>, <<"4", "0", "0", "0">>, <<"1", ".", "0", "0">>)>>
SearchSlots == InitialSlots \cup { SlotJSON(ArrayV(StoredBooks)) }

InitSearch == NoFile /\ NoForm /\ \E slot \in SearchSlots : Started(slot)

SpecSearch == InitSearch /\ [][NextSearch]_vars

(***************************************************************************)
(* One file through the export, the parser and the two row mappings        *)
(***************************************************************************)
\* data rows per generated CSV text, and records per exported store
MaxDataRows == 2
MaxExport == 2

\* field contents from which the records of an exported store are made
ExportInputs ==
  { Fields(n, k, u) :
      n \in { <<"A">>, <<"a", COMMA, QUOTE, "b">> },
      k \in { << >>, <<"8", ",", "0", "0", "0", " ", "K", "H", "R">> },
      u \in { << >>, <<"1", ".", "5">>, <<"2", ".", "0", "0">> } }
ExportRecords == { ModalEntry(f) : f \in ExportInputs }
ExportStores == UNION { [1..n -> ExportRecords] : n \in 1..MaxExport }

\* header rows and data rows, as the cells are written in the file
CsvHeaders ==
  { <<H_Book_Title, H_Price_Unit, H_USD>>,
    <<K_name, K_khr>>,
    <<<<" ", "T", "i", "t", "l", "e">>, <<"P", "r", "i", "c", "e", " ", "(", "K", "H", "R", ")">>>>,
    <<K_name, K_khr, K_usd>> }
CsvDataRows ==
  { <<n, k, u>> :
      n \in { <<"E">>, <<" ", "f", " ">>, << >> },
      k \in { <<"8", "0", "0", "0">>, << >>, <<"a", "b", "c">>,
              <<QUOTE, "1", ",", "2", "3", "4", " ", "K", "H", "R", QUOTE>> },
      u \in { << >>, <<"1", ".", "5">> } }
  \cup { <<<<"G">>>> }
CsvLine(cells) == Join(cells, <<COMMA>>)
CsvSheets ==
  { <<h>> \o d :
      h \in CsvHeaders, d \in UNION { [1..n -> CsvDataRows] : n \in 0..MaxDataRows } }
CsvText(cells) == Join([i \in 1..Len(cells) |-> CsvLine(cells[i])], <<LF>>)
BlankText == <<" ", LF>>

mainVars == <<books, searchIndex, storage, editIndex, rows, initPc, pending, last>>

InitCsv ==
  /\ Started(SlotAbsent)
  /\ NoForm
  /\ fileRows = << >>
  /\ fileBooks = NotRun
  /\ bootBooks = NotRun
  /\ \/ filePc = "store" /\ fileStore \in ExportStores /\ fileText = << >>
        /\ fileCells = << >>
     \/ filePc = "text" /\ fileStore = << >> /\ fileText = BlankText
        /\ fileCells = << >>
     \/ filePc = "text" /\ fileStore = << >> /\ fileCells \in CsvSheets
        /\ fileText = CsvText(fileCells)

\* the export handler writes books_export.csv from a non-empty store
ExportFile ==
  /\ filePc = "store"
  /\ fileText' = ExportCSV(fileStore)
  /\ filePc' = "text"
  /\ UNCHANGED <<fileStore, fileRows, fileBooks, bootBooks, fileCells>>
  /\ UNCHANGED <<mainVars, formVars>>

\* const rows = parseCSVText(txt)
ParseFile ==
  /\ filePc = "text"
  /\ fileRows' = parseCSVText(fileText)
  /\ filePc' = "rows"
  /\ UNCHANGED <<fileStore, fileText, fileBooks, bootBooks, fileCells>>
  /\ UNCHANGED <<mainVars, formVars>>

\* lines 106-116 of the import handler
MapImport ==
  /\ filePc = "rows"
  /\ ~fileBooks.done
  /\ fileBooks' = IF Len(fileRows) = 0 THEN Refused("CSV is empty")
                  ELSE Mapped(ImportRecords(fileRows))
  /\ UNCHANGED <<fileStore, fileText, fileRows, bootBooks, fileCells, filePc>>
  /\ UNCHANGED <<mainVars, formVars>>

\* lines 293-303 of loadDefaultCSV
MapBootstrap ==
  /\ filePc = "rows"
  /\ ~bootBooks.done
  /\ bootBooks' = IF Len(fileRows) <= 1 THEN Refused("skipped")
                  ELSE Mapped(BootstrapRecords(fileRows))
  /\ UNCHANGED <<fileStore, fileText, fileRows, fileBooks, fileCells, filePc>>
  /\ UNCHANGED <<mainVars, formVars>>

NextCsv == ExportFile \/ ParseFile \/ MapImport \/ MapBootstrap

SpecCsv == InitCsv /\ [][NextCsv]_vars

(***************************************************************************)
(* The inputs of the modal while the user types (lines 172-204)            *)
(***************************************************************************)
TypedNames == { << >>, <<" ", "A">>, <<"B">> }
TypedKHR == { << >>, <<"a", "b", "c">>, <<"8", ",", "0", "0", "0">>, <<"1", "2", "3", "4">>,
              <<"0">>, <<"-">> }
TypedUSD == { << >>, <<"1", ".", "5">>, <<"x">> }

pageVars == <<books, searchIndex, storage, editIndex, rows, initPc, pending>>

InitModal ==
  /\ Started(SlotAbsent)
  /\ NoFile
  /\ NoForm

\* openModal('add') clears the inputs (lines 176-181)
openModalForm ==
  /\ bookName' = << >>
  /\ priceKHR' = << >>
  /\ priceUSD' = << >>
  /\ last' = Event("openModal", "", << >>, FALSE)
  /\ UNCHANGED <<pageVars, fileVars>>

\* openEdit(i) loads the record b = books[i] into the inputs (lines 194-196)
openEditForm(b) ==
  /\ bookName' = b.name
  /\ priceKHR' = b.khr
  /\ priceUSD' = b.usd
  /\ last' = Event("openEdit", "", << >>, FALSE)
  /\ UNCHANGED <<pageVars, fileVars>>

\* the user types in #bookName or #priceUSD: no handler listens
typeName(n) ==
  /\ bookName' = n
  /\ UNCHANGED <<priceKHR, priceUSD, mainVars, fileVars>>
typeUSD(u) ==
  /\ priceUSD' = u
  /\ UNCHANGED <<bookName, priceKHR, mainVars, fileVars>>

\* (n / RATE).toFixed(2) with n = parseFloat(raw) || 0
LiveUSD(k) ==
  LET raw == trim(RemoveChars(k, {COMMA}))
      n == OrElse(parseFloat(raw), NumV(FALSE, 0, 0))
  IN toFixed2(DivRATE(n))

\* the user types k in #priceKHR and its input listener runs (lines 200-204)
priceKHRInput(k) ==
  /\ priceKHR' = k
  /\ priceUSD' = LiveUSD(k)
  /\ last' = Event("priceKHRInput", "", << >>, FALSE)
  /\ UNCHANGED <<bookName, pageVars, fileVars>>

NextModal ==
  \/ openModalForm
  \/ \E b \in ExportRecords : openEditForm(b)
  \/ \E n \in TypedNames : typeName(n)
  \/ \E u \in TypedUSD : typeUSD(u)
  \/ \E k \in TypedKHR : priceKHRInput(k)

SpecModal == InitModal /\ [][NextModal]_vars

(***************************************************************************)
(* Properties                                                              *)
(***************************************************************************)

\* C1: whenever no import and no bootstrap load is suspended, searchIndex has
\* the length of the store and searchIndex[i] is the lowercase string
\* name + ' ' + khr + ' ' + usd of the record at position i.
C1_IndexMatchesStore ==
  Idle =>
    /\ Len(searchIndex) = Len(books.items)
    /\ \A i \in 1..Len(books.items) :
         i <= Len(searchIndex) => searchIndex[i] = IndexEntry(Composite(books.items[i]))

\* C2: a handler that assigned to the store then completed saveToStorage and
\* buildSearchIndex, in that order, before it ended.
C2_PersistThenRebuild ==
  "assign" \in Range(last.calls) =>
    /\ Len(last.calls) >= 3
    /\ SubSeq(last.calls, 1, 3) = <<"assign", "saveToStorage", "buildSearchIndex">>

\* C3: saving the modal in edit mode with an index that is not a position of
\* the store changes neither the store, nor the persisted slot, nor the index.
C3_OutOfBoundsEditIsNoOp ==
  [][ (/\ editIndex # -1
       /\ editIndex >= Len(books.items)
       /\ \E f \in ModalInputs : saveFromModal(f))
      => UNCHANGED <<books, storage, searchIndex>> ]_vars

\* C4: the step that ends the bootstrap load changes the store only when the
\* store holds no record at that moment.
C4_BootstrapOnlyIntoEmptyStore ==
  [][ (initPc = "loading" /\ initPc' # "loading" /\ books' # books)
      => Len(books.items) = 0 ]_vars

\* the bootstrap load has installed the records of books.csv
C4_BootstrapInstalled ==
  /\ last.handler = "init"
  /\ "assign" \in Range(last.calls)
  /\ initPc = "done"
  /\ Len(books.items) > 0

\* C5: while an import or the bootstrap load is suspended, no add, edit or
\* delete changes the store and no further import starts.
C5_NothingRunsWhileSuspended ==
  [][ (pending # {} \/ initPc = "loading")
      => ~ \/ (\E f \in ModalInputs : saveFromModal(f)) /\ books' # books
           \/ (\E i \in 0..MaxBooks : deleteBook(i, TRUE)) /\ books' # books
           \/ \E file \in Files : ImportStart(file) ]_vars

\* C6: an import that ends with the 'Import failed' notice leaves the store as
\* it was.
C6_FailedImportKeepsStore ==
  [][ ((\E file \in Files : ImportFinish(file)) /\ last'.notice = "Import failed")
      => books' = books ]_vars

\* C7: whatever the persisted slot holds, the store is a sequence of records
\* and init() does not end by an exception.
C7_StartupYieldsSequence ==
  /\ books.type = "array"
  /\ ~HasKind(books.items, {"null"})
  /\ initPc # "threw"

\* C8: reloading the page yields the store the page held before the reload.
C8_ReloadKeepsStore == [][ Reload => books' = books ]_vars

\* C9: importing the CSV exported from a store yields the records of that
\* store, equal in name, khr and usd and in the same order.
C9_ExportImportRoundTrip ==
  (fileStore # << >> /\ fileBooks.done) => fileBooks = Mapped(fileStore)

\* C10: on CSV import a non-empty 'usd' cell gives usd = that cell formatted to
\* two decimals; otherwise usd is the resolved KHR source ('price/unit', then
\* 'khr', then 'price (khr)') divided by RATE, formatted to two decimals.
C10_UsdFromResolvedKHR ==
  (fileBooks.done /\ fileBooks.notice = "") =>
    \A k \in 1..Len(fileBooks.items) :
      LET header == NormalizeHeader(fileRows[1])
          r == fileRows[k + 1]
          explicit == Cell(header, r, K_usd)
          source == OrElse(Cell(header, r, K_price_unit),
                      OrElse(Cell(header, r, K_khr),
                        OrElse(Cell(header, r, K_price_khr), StrV(EmptyStr))))
          n == ToNumber(cleanCurrency(source))
      IN IF Truthy(explicit)
         THEN fileBooks.items[k].usd = formatUSD(explicit)
         ELSE (source.s # << >> /\ n.t = "number")
              => fileBooks.items[k].usd = toFixed2(DivRATE(n))

\* C11: when the KHR typed in the modal is empty or does not parse as a
\* number, the live recomputation leaves usd empty (not '0.00').
C11_UnparseableKhrGivesBlankUsd ==
  [][ ((\E k \in TypedKHR : priceKHRInput(k))
       /\ parseFloat(trim(RemoveChars(priceKHR', {COMMA}))).t = "NaN")
      => priceUSD' = << >> ]_vars

\* C12: a CSV text with header 'Book Title,Price/Unit,USD' and N data rows
\* is imported as exactly N records in row order, record k named by the
\* trimmed title field of data row k; rows without a name are kept.
C12_ImportKeepsEveryRow ==
  (fileBooks.done /\ fileCells # << >>
     /\ fileCells[1] = <<H_Book_Title, H_Price_Unit, H_USD>>) =>
    /\ fileBooks.notice = ""
    /\ Len(fileBooks.items) = Len(fileCells) - 1
    /\ \A k \in 1..Len(fileBooks.items) :
         /\ fileBooks.items[k].kind = "record"
         /\ fileBooks.items[k].name = trim(fileCells[k + 1][1])
C12_NamelessRowImported ==
  /\ fileBooks.done
  /\ Len(fileCells) = 3
  /\ fileCells[1] = <<H_Book_Title, H_Price_Unit, H_USD>>
  /\ fileCells[2][1] = << >>
  /\ fileCells[3][1] = <<" ", "f", " ">>
  /\ Len(fileBooks.items) = 2
  /\ fileBooks.items[2].name = <<"f">>

\* the record b matches the typed text v
Matches(b, v) == b.kind = "record" /\ includes(Composite(b), toLowerCase(trim(v)))

\* C13: deleteBook(i) with 0 <= i < L removes the record at position i, keeps
\* the others in order with the later ones shifted down, and leaves L - 1
\* records; a query that only the deleted record matched then finds nothing.
C13_DeleteRemovesOneRecord ==
  [][ /\ \A i \in 0..MaxBooks :
           (deleteBook(i, TRUE) /\ books.type = "array" /\ i < Len(books.items)) =>
             /\ Len(books'.items) = Len(books.items) - 1
             /\ \A j \in 1..i : books'.items[j] = books.items[j]
             /\ \A j \in (i + 1)..Len(books'.items) : books'.items[j] = books.items[j + 1]
      /\ \A v \in SearchInputs :
           (search(v) /\ last.handler = "deleteBook" /\ toLowerCase(trim(v)) # << >>
              /\ books.type = "array"
              /\ \A j \in 1..Len(books.items) : ~Matches(books.items[j], v)) =>
             rows' = << >> ]_vars

\* C14: a search shows, in store order, exactly the records whose composite
\* string contains the lowercased query; the empty query shows every record
\* and a query contained in no record shows none.
C14_SearchShowsTheMatches ==
  [][ \A v \in SearchInputs :
        (search(v) /\ books.type = "array") =>
          rows' = IF toLowerCase(trim(v)) = << >> THEN books.items
                  ELSE SelectSeq(books.items, LAMBDA b : Matches(b, v)) ]_vars

\* C16: the Edit and Delete buttons of a displayed row act on the record
\* that the row displays, also when the rows are the result of a search.
C16_RowActsOnItsRecord ==
  [][ \A i \in 0..MaxBooks :
        (deleteBook(i, TRUE) \/ openEdit(i)) => ElementAt(books, i + 1) = rows[i + 1] ]_vars

\* the text has no line with a character other than white space
IsBlankText(text) ==
  \A k \in 1..Len(SplitLines(text)) : trim(SplitLines(text)[k]) = << >>

\* C15: importing a CSV file without a non-blank line shows 'CSV is empty'
\* and leaves the store, the persisted slot and the search index unchanged.
C15_BlankImportChangesNothing ==
  [][ \A file \in Files :
        (ImportFinish(file) /\ IsCsvName(file.name) /\ file.readable
           /\ IsBlankText(file.text)) =>
          /\ last'.notice = "CSV is empty"
          /\ UNCHANGED <<books, storage, searchIndex>> ]_vars
C15_BlankImportRefused ==
  /\ last.handler = "import"
  /\ last.notice = "CSV is empty"
  /\ books.type = "array"
  /\ Len(books.items) > 0
  /\ pending = {}

\* C17: saving the modal with a name changes only its target: in add mode
\* the store becomes the new record followed by the previous store; in edit
\* mode the store keeps its length and differs at most at the edited
\* position, whatever happened between opening the edit and saving it.
C17_SaveChangesOnlyItsTarget ==
  [][ \A f \in ModalInputs :
        (saveFromModal(f) /\ ModalEntry(f).name # << >> /\ books.type = "array") =>
          IF editIndex = -1
          THEN books'.items = <<ModalEntry(f)>> \o books.items
          ELSE /\ Len(books'.items) = Len(books.items)
               /\ \A j \in 1..Len(books.items) :
                    j # editIndex + 1 => books'.items[j] = books.items[j] ]_vars

\* C18: for every CSV text the bootstrap load maps the rows to the records
\* the manual import maps them to (same header aliases, same USD
\* derivation), and both install nothing for a header-only file.
C18_BootstrapMapsLikeImport ==
  (fileBooks.done /\ bootBooks.done) => fileBooks.items = bootBooks.items

\* the commas of a line that an even number of quote characters precedes
OuterCommas(line) ==
  Cardinality({ i \in 1..Len(line) :
                  /\ line[i] = COMMA
                  /\ Cardinality({ j \in 1..(i - 1) : line[j] = QUOTE }) % 2 = 0 })
\* the header and the fields of the records, as the export writes them
StoreCells(items) ==
  <<<<H_Book_Title, H_Price_Unit, H_USD>>>>
    \o [i \in 1..Len(items) |-> <<items[i].name, items[i].khr, items[i].usd>>]

\* C19: each non-blank line is split into 1 + (commas outside quoted
\* regions) fields, a doubled quote inside a quoted field giving one quote;
\* so rows of fields written quoted, with their quotes doubled, and joined
\* by commas parse back to the same rows of fields.
C19_FieldsSplitAtOuterCommas ==
  filePc = "rows" =>
    LET lines == SelectSeq(SplitLines(fileText), LAMBDA l : trim(l) # << >>)
    IN /\ Len(fileRows) = Len(lines)
       /\ \A k \in 1..Len(lines) : Len(fileRows[k]) = 1 + OuterCommas(lines[k])
       /\ fileStore # << >> => fileRows = StoreCells(fileStore)
C19_QuotedFieldParsedBack ==
  /\ filePc = "rows"
  /\ Len(fileStore) = 2
  /\ fileStore[2].name = <<"a", COMMA, QUOTE, "b">>
  /\ fileStore[2].khr = << >>
  /\ Len(fileRows) = 3
  /\ fileRows[3][1] = <<"a", COMMA, QUOTE, "b">>

\* C20: the store is always an array whose every position holds a record
\* (no hole, null or undefined), also after a reload from the slot.
C20_StoreIsDense ==
  books.type = "array" /\ ~HasKind(books.items, {"hole", "null"})

====
